---- MODULE Spec2Model ----
(***************************************************************************)
(* Model of the prediction data pipeline of src/lib/api.ts: the           *)
(* createPrediction round trip, the capped history kept in localStorage   *)
(* under the key predictionHistory, and the history operations            *)
(* (getPredictionHistory, getPrediction, deletePrediction).               *)
(*                                                                         *)
(* JavaScript runs every continuation to completion on one thread: a      *)
(* createPrediction call can be suspended only at its two awaits (fetch,  *)
(* then response.json()/response.text()).  The synchronous body of        *)
(* savePredictionToHistory is modelled in two steps (read, write) with the *)
(* variable running naming the call whose continuation holds the thread,  *)
(* so that the atomicity of the read-modify-write is something the model  *)
(* checks instead of something it assumes.                                *)
(***************************************************************************)
EXTENDS Integers, Sequences, FiniteSets, TLC

VARIABLES
    predictionHistory, \* localStorage item 'predictionHistory': NoItem or JSON text
    now,               \* the reading of the clock (Date.now(), in ms)
    calls,             \* the createPrediction calls, by slot
    running,           \* the call whose synchronous continuation holds the thread, or NoCall
    last,              \* the outcome of the last history operation, for its caller
    inserted,          \* history variable: the results saved so far, oldest first
    deleted,           \* history variable: deletePrediction has been called
    token,             \* localStorage item 'token': Absent or the token stored
    user,              \* the user state of AuthProvider: Absent (null) or the user
    auth,              \* the login, logout or auth check of AuthProvider that is in flight
    req,               \* the call of ApiClient.request that is in flight
    isLoading          \* the isLoading state of AuthProvider

vars == <<predictionHistory, now, calls, running, last, inserted, deleted,
          token, user, auth, req, isLoading>>

\* The session and the request gateway, which the history operations leave alone
session == <<token, user, auth, req, isLoading>>

----------------------------------------------------------------------------
(* Bounds of the model *)

\* createPrediction calls that may be in flight at once
MaxCalls == 2
\* createPrediction calls of Spec that are in flight or have saved their result
MaxStarted == 3
\* last clock reading of Spec
MaxClock == 1
\* results saved in one behaviour of SpecCap
MaxBulkCalls == 60
\* results saved in one behaviour of SpecList
MaxListCalls == 26
\* results saved in one behaviour of SpecLife
MaxLifeCalls == 52
\* results saved in one behaviour of SpecScore
MaxScoreCalls == 1
\* results saved in one behaviour of SpecRules
MaxRuleCalls == 1

(* Program constants *)

\* history.slice(0, 50)
HistoryCap == 50
\* filters?.page || 1
DefaultPage == 1
\* filters?.limit || 10
DefaultLimit == 10

CallIds == 1 .. MaxCalls
NoCall == 0

----------------------------------------------------------------------------
(* JavaScript values *)

\* An optional number or string is <<>> when absent (undefined) and <<v>> otherwise.
Absent == <<>>
Some(v) == <<v>>

\* x || d for an optional number: undefined and 0 are falsy
OrDefault(o, d) == IF o = Absent \/ o[1] = 0 THEN d ELSE o[1]

Min(a, b) == IF a <= b THEN a ELSE b
Max(a, b) == IF a >= b THEN a ELSE b

\* Array.prototype.slice(from, to) for 0 <= from, 0 <= to (0-based, to exclusive)
Slice(s, from, to) ==
    LET lo == Min(from, Len(s))
        hi == Min(to, Len(s))
    IN  IF lo >= hi THEN <<>> ELSE [i \in 1 .. (hi - lo) |-> s[lo + i]]

\* history.filter(p => p.riskLevel === level)
RECURSIVE FilterRiskLevel(_, _)
FilterRiskLevel(s, level) ==
    IF s = <<>> THEN <<>>
    ELSE IF Head(s).riskLevel = level
         THEN <<Head(s)>> \o FilterRiskLevel(Tail(s), level)
         ELSE FilterRiskLevel(Tail(s), level)

\* history.filter(p => p.id !== id)
RECURSIVE FilterIdNot(_, _)
FilterIdNot(s, id) ==
    IF s = <<>> THEN <<>>
    ELSE IF Head(s).id # id
         THEN <<Head(s)>> \o FilterIdNot(Tail(s), id)
         ELSE FilterIdNot(Tail(s), id)

\* history.find(p => p.id === id): the first match, <<>> for undefined
RECURSIVE FindId(_, _)
FindId(s, id) ==
    IF s = <<>> THEN <<>>
    ELSE IF Head(s).id = id THEN <<Head(s)>> ELSE FindId(Tail(s), id)

\* JSON.stringify / JSON.parse of a list of PredictionResult.  Every value of a
\* result is a finite number, a string, a boolean, an array or an object, which
\* JSON renders and reads back unchanged; a property whose value is undefined is
\* left out of the text and reads as undefined again, which is how an absent
\* optional is represented here.  The text is kept as a tagged value.
JSONstringify(v) == <<"json", v>>
JSONparse(text) == text[2]

\* localStorage.getItem of a key that was never set
NoItem == <<"null">>
EmptyArrayText == JSONstringify(<<>>)

\* typeof window !== 'undefined': the client runs in a browser
HasWindow == TRUE

----------------------------------------------------------------------------
(* PredictionInput and the backward transform *)

\* The round-trip example of the form (age 60, cholesterol 260, systolic 150,
\* smoker, diabetic, bmi 27) and a patient on whom no rule fires.
RoundTripInput ==
    [age |-> 60, gender |-> "male", cholesterol |-> 260,
     bloodPressureSystolic |-> 150, bloodPressureDiastolic |-> 95,
     bmi |-> Some(27), smoking |-> TRUE, diabetes |-> TRUE,
     familyHistory |-> FALSE, height |-> Absent, weight |-> Absent]

HealthyInput ==
    [age |-> 40, gender |-> "female", cholesterol |-> 180,
     bloodPressureSystolic |-> 120, bloodPressureDiastolic |-> 80,
     bmi |-> Absent, smoking |-> FALSE, diabetes |-> FALSE,
     familyHistory |-> FALSE, height |-> Some(165), weight |-> Some(60)]

Inputs == {RoundTripInput, HealthyInput}
\* The input of the calls that overlap
OverlapInputs == {RoundTripInput}

\* Math.random() lies in [0, 1): it is drawn in hundredths, r / 100.
\* Math.floor(Math.random() * n) is then (r * n) \div 100.
RandomDraws == {32}
\* Mutant: Math.ceil in place of Math.floor
RandomFloor_Ceil(r, n) == (r * n + 99) \div 100
RandomFloor(r, n) == (r * n) \div 100

RiskValues == {0, 1}

\* `pred-${Date.now()}`
PredId(t) == <<"pred-", t>>
\* new Date().toISOString(): the reading of the clock as text
ISOString(t) == <<"iso", t>>

\* Mutant: the cholesterol line is given above 240 only
Recommendations_Above240(input) ==
    LET recs ==
          (IF input.smoking THEN <<"Consider smoking cessation programs">> ELSE <<>>)
       \o (IF input.bloodPressureSystolic > 140
           THEN <<"Monitor blood pressure regularly">> ELSE <<>>)
       \o (IF input.cholesterol > 240
           THEN <<"Consider dietary changes to reduce cholesterol">> ELSE <<>>)
       \o (IF input.diabetes THEN <<"Maintain blood glucose control">> ELSE <<>>)
       \o (IF input.bmi # Absent /\ input.bmi[1] # 0 /\ input.bmi[1] > 25
           THEN <<"Consider weight management plan">> ELSE <<>>)
    IN  IF Len(recs) = 0
        THEN <<"Continue maintaining healthy lifestyle habits">>
        ELSE recs

Recommendations(input) ==
    LET recs ==
          (IF input.smoking THEN <<"Consider smoking cessation programs">> ELSE <<>>)
       \o (IF input.bloodPressureSystolic > 140
           THEN <<"Monitor blood pressure regularly">> ELSE <<>>)
       \o (IF input.cholesterol > 200
           THEN <<"Consider dietary changes to reduce cholesterol">> ELSE <<>>)
       \o (IF input.diabetes THEN <<"Maintain blood glucose control">> ELSE <<>>)
       \o (IF input.bmi # Absent /\ input.bmi[1] # 0 /\ input.bmi[1] > 25
           THEN <<"Consider weight management plan">> ELSE <<>>)
    IN  IF Len(recs) = 0
        THEN <<"Continue maintaining healthy lifestyle habits">>
        ELSE recs

\* Mutant: the cholesterol factor is given above 200 already
Factors_Above200(input) ==
       (IF input.smoking
        THEN <<[name |-> "Smoking", impact |-> 25,
                description |-> "Smoking significantly increases cardiovascular risk"]>>
        ELSE <<>>)
    \o (IF input.bloodPressureSystolic > 140
        THEN <<[name |-> "High Blood Pressure", impact |-> 30,
                description |-> "Elevated systolic blood pressure"]>>
        ELSE <<>>)
    \o (IF input.cholesterol > 200
        THEN <<[name |-> "High Cholesterol", impact |-> 20,
                description |-> "Cholesterol level above recommended range"]>>
        ELSE <<>>)
    \o (IF input.age > 55
        THEN <<[name |-> "Age", impact |-> 15,
                description |-> "Age is a non-modifiable risk factor"]>>
        ELSE <<>>)

Factors(input) ==
       (IF input.smoking
        THEN <<[name |-> "Smoking", impact |-> 25,
                description |-> "Smoking significantly increases cardiovascular risk"]>>
        ELSE <<>>)
    \o (IF input.bloodPressureSystolic > 140
        THEN <<[name |-> "High Blood Pressure", impact |-> 30,
                description |-> "Elevated systolic blood pressure"]>>
        ELSE <<>>)
    \o (IF input.cholesterol > 240
        THEN <<[name |-> "High Cholesterol", impact |-> 20,
                description |-> "Cholesterol level above recommended range"]>>
        ELSE <<>>)
    \o (IF input.age > 55
        THEN <<[name |-> "Age", impact |-> 15,
                description |-> "Age is a non-modifiable risk factor"]>>
        ELSE <<>>)

\* transformBackendResponse(backendResponse, input), with r the value Math.random()
\* returns, t the clock read by Date.now() and t2 the clock read by new Date()
transformBackendResponse(backendResponse, input, r, t, t2) ==
    LET riskValue == backendResponse.risk
        riskScore == IF riskValue = 0
                     THEN RandomFloor(r, 20) + 5
                     ELSE RandomFloor(r, 50) + 35
        riskLevel == IF riskValue = 0 THEN "low"
                     ELSE IF riskScore > 50 THEN "high" ELSE "medium"
    IN  [id |-> PredId(t),
         userId |-> "user-1",
         input |-> input,
         riskScore |-> riskScore,
         riskLevel |-> riskLevel,
         recommendations |-> Recommendations(input),
         factors |-> Factors(input),
         modelVersion |-> "v2.1.0",
         createdAt |-> ISOString(t2)]

----------------------------------------------------------------------------
(* The forward transform and the predict request *)

\* Mutant: a gender that is not in genderMap is sent as 0
GenderCode_NoDefault(gender) ==
    IF gender = "female" THEN 1
    ELSE IF gender = "male" THEN 2
    ELSE IF gender = "other" THEN 2
    ELSE 0

\* genderMap[input.gender] || 2
GenderCode(gender) ==
    IF gender = "female" THEN 1
    ELSE IF gender = "male" THEN 2
    ELSE IF gender = "other" THEN 2
    ELSE 2

\* Mutant: the middle tier begins above 200 instead of at 200
CholesterolLevel_Above200(cholesterol) ==
    IF cholesterol > 240 THEN 3 ELSE IF cholesterol > 200 THEN 2 ELSE 1

\* let cholesterolLevel = 1; if (> 240) 3; else if (>= 200) 2
CholesterolLevel(cholesterol) ==
    IF cholesterol > 240 THEN 3 ELSE IF cholesterol >= 200 THEN 2 ELSE 1

\* Mutant: Math.floor in place of Math.round
MathRound_Floor(n, d) == n \div d

\* Math.round(n / d) for d > 0: the nearest integer, a half rounded up
MathRound(n, d) == (2 * n + d) \div (2 * d)

\* transformToBackendFormat(input)
transformToBackendFormat(input) ==
    LET bmi == OrDefault(input.bmi, 25)
        height == OrDefault(input.height, 170)
        weight == IF input.weight = Absent \/ input.weight[1] = 0
                  THEN MathRound(bmi * height * height, 100 * 100)
                  ELSE input.weight[1]
    IN  [age |-> input.age,
         gender |-> GenderCode(input.gender),
         height |-> height,
         weight |-> weight,
         ap_hi |-> input.bloodPressureSystolic,
         ap_lo |-> input.bloodPressureDiastolic,
         cholesterol |-> CholesterolLevel(input.cholesterol),
         gluc |-> IF input.diabetes THEN 2 ELSE 1,
         smoke |-> IF input.smoking THEN 1 ELSE 0,
         alco |-> 0,
         active |-> 1,
         bmi |-> bmi]

\* Headers are functions from header names to values; a value is a list of
\* the parts of its text.  { ...a, ...b }: the entries of b override those of a.
NoHeaders == [name \in {} |-> <<>>]
Spread(a, b) ==
    [name \in DOMAIN a \cup DOMAIN b |-> IF name \in DOMAIN b THEN b[name] ELSE a[name]]
Header(name, value) == [n \in {name} |-> value]

\* The request createPrediction hands to fetch
PredictRequest(input) ==
    [url |-> "/api/backend/predict",
     method |-> "POST",
     headers |-> Header("Content-Type", <<"application/json">>),
     body |-> JSONstringify(transformToBackendFormat(input))]

----------------------------------------------------------------------------
(* The history store *)

\* JSON.parse(localStorage.getItem('predictionHistory') || '[]')
ReadHistory(item) == JSONparse(IF item = NoItem THEN EmptyArrayText ELSE item)

\* getPredictionHistoryFromStorage()
getPredictionHistoryFromStorage(item) ==
    IF ~HasWindow THEN <<>> ELSE ReadHistory(item)

\* Mutant: the prediction is pushed at the end instead of unshifted
UnshiftPrediction_Push(item, prediction) == ReadHistory(item) \o <<prediction>>

\* savePredictionToHistory, first half: read the item and unshift the prediction
UnshiftPrediction(item, prediction) == <<prediction>> \o ReadHistory(item)

\* Mutant: the list is written back without slice(0, 50)
CappedText_NoSlice(history) == JSONstringify(history)

\* savePredictionToHistory, second half: the text written back
CappedText(history) == JSONstringify(Slice(history, 0, HistoryCap))

\* Mutant: history.splice(history.findIndex(p => p.id === id), 1), which
\* removes the last entry when no entry has the id (findIndex gives -1)
DeletedText_Splice(item, id) ==
    LET history == getPredictionHistoryFromStorage(item)
        at == IF \E i \in 1 .. Len(history) : history[i].id = id
              THEN CHOOSE i \in 1 .. Len(history) :
                      /\ history[i].id = id
                      /\ \A j \in 1 .. (i - 1) : history[j].id # id
              ELSE Len(history)
    IN  JSONstringify([k \in 1 .. Max(0, Len(history) - 1) |->
                          IF k < at THEN history[k] ELSE history[k + 1]])

\* deletePrediction: the text written back
DeletedText(item, id) ==
    JSONstringify(FilterIdNot(getPredictionHistoryFromStorage(item), id))

\* The history as its readers see it
History == getPredictionHistoryFromStorage(predictionHistory)

\* HistoryFilters: each field is optional
NoFilters == [riskLevel |-> Absent, page |-> Absent, limit |-> Absent]

\* Mutant: total is the size of the store, not of the filtered list
getPredictionHistory_StoreTotal(item, filters) ==
    LET stored == getPredictionHistoryFromStorage(item)
        history == IF filters.riskLevel # Absent /\ filters.riskLevel[1] # ""
                      /\ filters.riskLevel[1] # "all"
                   THEN FilterRiskLevel(stored, filters.riskLevel[1])
                   ELSE stored
        page == OrDefault(filters.page, DefaultPage)
        limit == OrDefault(filters.limit, DefaultLimit)
        startIndex == (page - 1) * limit
    IN  [data |-> Slice(history, startIndex, startIndex + limit),
         total |-> Len(stored),
         page |-> page,
         limit |-> limit,
         hasMore |-> (startIndex + limit < Len(history))]

\* Mutant: hasMore is computed with <= in place of <
getPredictionHistory_MoreAtEnd(item, filters) ==
    LET stored == getPredictionHistoryFromStorage(item)
        history == IF filters.riskLevel # Absent /\ filters.riskLevel[1] # ""
                      /\ filters.riskLevel[1] # "all"
                   THEN FilterRiskLevel(stored, filters.riskLevel[1])
                   ELSE stored
        page == OrDefault(filters.page, DefaultPage)
        limit == OrDefault(filters.limit, DefaultLimit)
        startIndex == (page - 1) * limit
    IN  [data |-> Slice(history, startIndex, startIndex + limit),
         total |-> Len(history),
         page |-> page,
         limit |-> limit,
         hasMore |-> (startIndex + limit <= Len(history))]

\* getPredictionHistory(filters): the PaginatedResponse
getPredictionHistory(item, filters) ==
    LET stored == getPredictionHistoryFromStorage(item)
        history == IF filters.riskLevel # Absent /\ filters.riskLevel[1] # ""
                      /\ filters.riskLevel[1] # "all"
                   THEN FilterRiskLevel(stored, filters.riskLevel[1])
                   ELSE stored
        page == OrDefault(filters.page, DefaultPage)
        limit == OrDefault(filters.limit, DefaultLimit)
        startIndex == (page - 1) * limit
    IN  [data |-> Slice(history, startIndex, startIndex + limit),
         total |-> Len(history),
         page |-> page,
         limit |-> limit,
         hasMore |-> (startIndex + limit < Len(history))]

----------------------------------------------------------------------------
(* Errors: the value a rejected promise carries.  type is the constructor
   (Error, TypeError, SyntaxError) or "object" for a thrown object literal;
   message is a list of the parts of the text. *)

\* fetch() rejects: no response was obtained
FailedToFetch ==
    [type |-> "TypeError", message |-> <<"Failed to fetch">>,
     code |-> Absent, statusCode |-> Absent]

\* new Error(`Backend error: ${errorText || response.status}`)
BackendError(errorText, status) ==
    [type |-> "Error",
     message |-> <<"Backend error: ", IF errorText # "" THEN errorText ELSE ToString(status)>>,
     code |-> Absent, statusCode |-> Absent]

\* response.json() rejects: the body is not JSON
JsonSyntaxError ==
    [type |-> "SyntaxError", message |-> <<"Unexpected token">>,
     code |-> Absent, statusCode |-> Absent]

\* backendResponse.risk of a null body
NullBodyError ==
    [type |-> "TypeError", message |-> <<"Cannot read properties of null">>,
     code |-> Absent, statusCode |-> Absent]

\* throw { message: 'Prediction not found', code: 'NOT_FOUND', statusCode: 404 }
NotFoundError ==
    [type |-> "object", message |-> <<"Prediction not found">>,
     code |-> Some("NOT_FOUND"), statusCode |-> Some(404)]

\* Mutant: a missing prediction is returned as undefined instead of thrown
getPrediction_NoThrow(item, id) ==
    [found |-> FindId(getPredictionHistoryFromStorage(item), id), error |-> <<>>]

\* getPrediction(id): the entry found (at most one) and the errors thrown (at most one)
getPrediction(item, id) ==
    LET history == getPredictionHistoryFromStorage(item)
        prediction == FindId(history, id)
    IN  IF prediction = <<>>
        THEN [found |-> <<>>, error |-> <<NotFoundError>>]
        ELSE [found |-> prediction, error |-> <<>>]

----------------------------------------------------------------------------
(* State *)

\* A createPrediction call.  pc is where the call stands: "idle" (no call in
\* this slot), "fetch" (awaiting fetch), "json" (awaiting response.json()),
\* "text" (awaiting response.text()), "save" (inside savePredictionToHistory,
\* between the read and the write).  response is the value of the const
\* backendResponse, result that of the const result and local the array named
\* history inside savePredictionToHistory (lists of at most one).  When the
\* promise settles the slot is idle again and last holds the outcome.  overtaken
\* is a history field: another call has saved its result while this one was in
\* flight.
IdleCall ==
    [pc |-> "idle", input |-> <<>>, status |-> 0, response |-> <<>>,
     result |-> <<>>, local |-> <<>>, overtaken |-> FALSE]

InFlight(c) == calls[c].pc # "idle"
NumInFlight == Cardinality({c \in CallIds : InFlight(c)})

\* Slots are names only: a new call takes the first idle one
FreeSlot(c) == ~InFlight(c) /\ \A d \in CallIds : d < c => InFlight(d)

\* The outcome of the operation that settled last, as its caller sees it: op is
\* "create", "list", "get" or "delete"; settled is "resolved" or "rejected";
\* found the PredictionResult returned, error the value thrown, page the
\* PaginatedResponse returned (each a list of at most one); before is the
\* history as it was when the settling step began; overtaken tells, for a
\* create that resolved, that another call saved its result while it was in
\* flight; session is, for a logout, the token and the user as they were when
\* the settling step began and how api.logout had settled.
NoOp ==
    [op |-> "none", id |-> <<>>, filters |-> <<>>, settled |-> "none",
     found |-> <<>>, error |-> <<>>, page |-> <<>>, before |-> <<>>,
     overtaken |-> FALSE, session |-> <<>>]

Rejected(op, error, before) ==
    [NoOp EXCEPT !.op = op, !.settled = "rejected", !.error = <<error>>,
                 !.before = before]

\* The login or logout of AuthProvider that is in flight: op is "none", "login"
\* or "logout"; result is what api.login returned (a list of at most one);
\* outcome is how the promise of api.logout settled.
IdleAuth == [op |-> "none", result |-> <<>>, outcome |-> "none"]

\* The call of request that is in flight.  pc is "idle", "fetch" (awaiting
\* fetch), "json" (awaiting response.json() of a response that is ok) or
\* "error" (awaiting response.json().catch(...) of one that is not); url and
\* config are what fetch was called with, status and body what the response
\* carries (url a list of parts, config and body lists of at most one).
IdleReq == [pc |-> "idle", url |-> <<>>, config |-> <<>>, status |-> 0, body |-> <<>>]

\* Mutant: a task may start while a continuation is between its read and its
\* write, as if the storage were read with an await
NoTaskRunning_Preempt == TRUE

\* No continuation holds the thread: a new task may run
NoTaskRunning == running = NoCall

Init ==
    /\ predictionHistory = NoItem
    /\ now = 0
    /\ calls = [c \in CallIds |-> IdleCall]
    /\ running = NoCall
    /\ last = NoOp
    /\ inserted = <<>>
    /\ deleted = FALSE
    /\ token = Absent
    /\ user = Absent
    /\ auth = IdleAuth
    /\ req = IdleReq
    /\ isLoading = TRUE

----------------------------------------------------------------------------
(* createPrediction *)

\* The call is made: transformToBackendFormat, then fetch is issued and awaited
CreatePrediction(c, input) ==
    /\ NoTaskRunning
    /\ FreeSlot(c)
    /\ calls' = [calls EXCEPT ![c] = [IdleCall EXCEPT !.pc = "fetch", !.input = <<input>>]]
    /\ last' = NoOp
    /\ UNCHANGED <<predictionHistory, now, running, inserted, deleted, session>>

\* fetch rejects (no response): the catch block rethrows
FetchFails(c) ==
    /\ NoTaskRunning
    /\ calls[c].pc = "fetch"
    /\ calls' = [calls EXCEPT ![c] = IdleCall]
    /\ last' = Rejected("create", FailedToFetch, History)
    /\ UNCHANGED <<predictionHistory, now, running, inserted, deleted, session>>

\* response.ok
ResponseOk(status) == 200 <= status /\ status <= 299

\* Mutant: response.ok is not tested, every body is read as JSON
FetchResponds_NoOkTest(c, status) ==
    /\ NoTaskRunning
    /\ calls[c].pc = "fetch"
    /\ calls' = [calls EXCEPT ![c].pc = "json", ![c].status = status]
    /\ last' = NoOp
    /\ UNCHANGED <<predictionHistory, now, running, inserted, deleted, session>>

\* fetch resolves with a response: the body is awaited, as text when
\* !response.ok and as JSON otherwise
FetchResponds(c, status) ==
    /\ NoTaskRunning
    /\ calls[c].pc = "fetch"
    /\ calls' = [calls EXCEPT ![c].pc = IF ResponseOk(status) THEN "json" ELSE "text",
                              ![c].status = status]
    /\ last' = NoOp
    /\ UNCHANGED <<predictionHistory, now, running, inserted, deleted, session>>

\* response.text() resolves: throw new Error(`Backend error: ...`)
BackendErrorThrown(c, errorText) ==
    /\ NoTaskRunning
    /\ calls[c].pc = "text"
    /\ calls' = [calls EXCEPT ![c] = IdleCall]
    /\ last' = Rejected("create", BackendError(errorText, calls[c].status), History)
    /\ UNCHANGED <<predictionHistory, now, running, inserted, deleted, session>>

\* response.json() rejects, or resolves with null: the catch block rethrows
BodyUnusable(c, error) ==
    /\ NoTaskRunning
    /\ calls[c].pc = "json"
    /\ calls' = [calls EXCEPT ![c] = IdleCall]
    /\ last' = Rejected("create", error, History)
    /\ UNCHANGED <<predictionHistory, now, running, inserted, deleted, session>>

\* response.json() resolves: transformBackendResponse, then
\* savePredictionToHistory reads the item and unshifts the result.
\* r is what Math.random() returns; Date.now() reads now and new Date() reads
\* t2, a few statements later in the same synchronous run (the specifications
\* below take the two readings in the same millisecond).
BodyArrives(c, backendResponse, r, t2) ==
    /\ NoTaskRunning
    /\ calls[c].pc = "json"
    /\ t2 >= now
    /\ LET result == transformBackendResponse(backendResponse, calls[c].input[1], r, now, t2)
       IN  calls' = [calls EXCEPT
                       ![c].pc = "save",
                       ![c].response = <<backendResponse>>,
                       ![c].result = <<result>>,
                       ![c].local = IF HasWindow
                                    THEN UnshiftPrediction(predictionHistory, result)
                                    ELSE <<>>]
    /\ now' = t2
    /\ running' = c
    /\ last' = NoOp
    /\ UNCHANGED <<predictionHistory, inserted, deleted, session>>

\* savePredictionToHistory writes the capped list back; createPrediction returns
SaveWrite(c) ==
    /\ calls[c].pc = "save"
    /\ predictionHistory' = IF HasWindow THEN CappedText(calls[c].local)
                            ELSE predictionHistory
    /\ calls' = [d \in CallIds |->
                    IF d = c THEN IdleCall
                    ELSE IF InFlight(d) THEN [calls[d] EXCEPT !.overtaken = TRUE]
                    ELSE calls[d]]
    /\ running' = NoCall
    /\ inserted' = Append(inserted, calls[c].result[1])
    /\ last' = [NoOp EXCEPT !.op = "create", !.settled = "resolved",
                            !.found = calls[c].result, !.before = History,
                            !.overtaken = calls[c].overtaken]
    /\ UNCHANGED <<now, deleted, session>>

----------------------------------------------------------------------------
(* History operations: each body is synchronous and runs as one task *)

GetPredictionHistory(filters) ==
    /\ NoTaskRunning
    /\ last' = [NoOp EXCEPT !.op = "list", !.filters = <<filters>>,
                            !.settled = "resolved",
                            !.page = <<getPredictionHistory(predictionHistory, filters)>>,
                            !.before = History]
    /\ UNCHANGED <<predictionHistory, now, calls, running, inserted, deleted, session>>

GetPrediction(id) ==
    /\ NoTaskRunning
    /\ LET got == getPrediction(predictionHistory, id)
       IN  last' = [NoOp EXCEPT !.op = "get", !.id = <<id>>,
                                !.settled = IF got.error = <<>> THEN "resolved"
                                            ELSE "rejected",
                                !.found = got.found,
                                !.error = got.error,
                                !.before = History]
    /\ UNCHANGED <<predictionHistory, now, calls, running, inserted, deleted, session>>

DeletePrediction(id) ==
    /\ NoTaskRunning
    /\ predictionHistory' = IF HasWindow THEN DeletedText(predictionHistory, id)
                            ELSE predictionHistory
    /\ last' = [NoOp EXCEPT !.op = "delete", !.id = <<id>>, !.settled = "resolved",
                            !.before = History]
    /\ deleted' = TRUE
    /\ UNCHANGED <<now, calls, running, inserted, session>>

\* A millisecond passes
Tick ==
    /\ now' = now + 1
    /\ UNCHANGED <<predictionHistory, calls, running, last, inserted, deleted, session>>

----------------------------------------------------------------------------
(* exportHistory *)

\* A text is the list of its pieces.  list.join(sep) of a list of texts
RECURSIVE Join(_, _)
Join(list, sep) ==
    IF list = <<>> THEN <<>>
    ELSE IF Len(list) = 1 THEN Head(list)
    ELSE Head(list) \o <<sep>> \o Join(Tail(list), sep)

\* The milliseconds of a day
MsPerDay == 24 * 60 * 60 * 1000

\* new Date(createdAt).toLocaleDateString(): the day of the reading, as text
toLocaleDateString(createdAt) == <<"day ", ToString(createdAt[2] \div MsPerDay)>>

CsvHeaders == << <<"Date">>, <<"Age">>, <<"Gender">>, <<"Risk Score">>, <<"Risk Level">> >>

\* The cells of the row of p; join renders a number as its digits
CsvRow(p) ==
    << toLocaleDateString(p.createdAt),
       <<ToString(p.input.age)>>,
       <<p.input.gender>>,
       <<ToString(p.riskScore)>>,
       <<p.riskLevel>> >>

\* Mutant: the rows are joined to the header without a line break
CsvText_OneLine(history) ==
    Join(<<Join(CsvHeaders, ",")>>
         \o [k \in 1 .. Len(history) |-> Join(CsvRow(history[k]), ",")], ",")

\* [headers.join(','), ...rows.map(r => r.join(','))].join('\n')
CsvText(history) ==
    Join(<<Join(CsvHeaders, ",")>>
         \o [k \in 1 .. Len(history) |-> Join(CsvRow(history[k]), ",")], "\n")

\* exportHistory(format): the Blob returned.  JSON.stringify(history, null, 2)
\* differs from JSON.stringify(history) in white space only.
exportHistory(item, format) ==
    LET history == getPredictionHistoryFromStorage(item)
    IN  IF format = "json"
        THEN [type |-> "application/json", parts |-> <<JSONstringify(history)>>]
        ELSE [type |-> "text/csv", parts |-> <<CsvText(history)>>]

\* Mutant: the export empties the history it has exported
ExportHistory_Clear(format) ==
    /\ NoTaskRunning
    /\ predictionHistory' = EmptyArrayText
    /\ last' = [NoOp EXCEPT !.op = "export", !.filters = <<format>>,
                            !.settled = "resolved",
                            !.page = <<exportHistory(predictionHistory, format)>>,
                            !.before = History]
    /\ UNCHANGED <<now, calls, running, inserted, deleted, session>>

ExportHistory(format) ==
    /\ NoTaskRunning
    /\ last' = [NoOp EXCEPT !.op = "export", !.filters = <<format>>,
                            !.settled = "resolved",
                            !.page = <<exportHistory(predictionHistory, format)>>,
                            !.before = History]
    /\ UNCHANGED <<predictionHistory, now, calls, running, inserted, deleted, session>>

----------------------------------------------------------------------------
(* The session: ApiClient.login and logout, AuthProvider.login and logout *)

\* An e-mail address is the pair of its parts around the '@'
Emails == {<<"doctor", "hospital.com">>}

\* api.login(email, password): any credentials are accepted
apiLogin(email, t) ==
    [token |-> <<"demo-token-", t>>,
     user |-> [id |-> "user-1", email |-> email, name |-> email[1],
               role |-> "doctor", createdAt |-> ISOString(t)]]

\* AuthProvider.login is called: api.login runs and its promise is awaited
Login(email) ==
    /\ NoTaskRunning
    /\ auth.op = "none"
    /\ auth' = [IdleAuth EXCEPT !.op = "login", !.result = <<apiLogin(email, now)>>]
    /\ last' = NoOp
    /\ UNCHANGED <<predictionHistory, now, calls, running, inserted, deleted, isLoading,
                   token, user, req>>

\* The rest of AuthProvider.login: setItem('token', result.token), setUser(result.user)
LoginContinues ==
    /\ NoTaskRunning
    /\ auth.op = "login"
    /\ token' = Some(auth.result[1].token)
    /\ user' = Some(auth.result[1].user)
    /\ auth' = IdleAuth
    /\ last' = [NoOp EXCEPT !.op = "login", !.settled = "resolved", !.before = History]
    /\ UNCHANGED <<predictionHistory, now, calls, running, inserted, deleted, isLoading, req>>

\* How the promise of api.logout settles.  api.logout as written removes the
\* token and resolves; "rejected" is the case the catch block of
\* AuthProvider.logout is written for, a logout that throws before it has
\* removed the token.
LogoutOutcomes == {"resolved", "rejected"}

\* Mutant: the finally block of AuthProvider.logout resets the user only
LogoutFinally_KeepToken ==
    /\ NoTaskRunning
    /\ auth.op = "logout"
    /\ user' = Absent
    /\ auth' = IdleAuth
    /\ last' = [NoOp EXCEPT !.op = "logout", !.settled = "resolved",
                            !.before = History,
                            !.session = <<[token |-> token, user |-> user,
                                           outcome |-> auth.outcome]>>]
    /\ UNCHANGED <<predictionHistory, now, calls, running, inserted, deleted, isLoading,
                   token, req>>

\* AuthProvider.logout is called: api.logout runs and its promise is awaited
Logout(outcome) ==
    /\ NoTaskRunning
    /\ auth.op = "none"
    /\ token' = IF outcome = "resolved" /\ HasWindow THEN Absent ELSE token
    /\ auth' = [IdleAuth EXCEPT !.op = "logout", !.outcome = outcome]
    /\ last' = NoOp
    /\ UNCHANGED <<predictionHistory, now, calls, running, inserted, deleted, isLoading,
                   user, req>>

\* The rest of AuthProvider.logout: a rejection is caught and ignored, then
\* the finally block runs removeItem('token') and setUser(null)
LogoutFinally ==
    /\ NoTaskRunning
    /\ auth.op = "logout"
    /\ token' = Absent
    /\ user' = Absent
    /\ auth' = IdleAuth
    /\ last' = [NoOp EXCEPT !.op = "logout", !.settled = "resolved",
                            !.before = History,
                            !.session = <<[token |-> token, user |-> user,
                                           outcome |-> auth.outcome]>>]
    /\ UNCHANGED <<predictionHistory, now, calls, running, inserted, deleted, isLoading, req>>

----------------------------------------------------------------------------
(* AuthProvider: the mount, the auth check and the render gate; the settings
   page's own logout *)

\* api.getCurrentUser(): a fixed user; the promise never rejects, so the
\* catch block of checkAuth has no way to run
getCurrentUser(t) ==
    [id |-> "user-1", email |-> <<"doctor", "hospital.com">>, name |-> "Dr. John Doe",
     role |-> "doctor", createdAt |-> ISOString(t)]

\* The page is loaded: AuthProvider mounts with user null and isLoading true.
\* What was in flight in the page before is gone; localStorage stays.
Mount ==
    /\ NoTaskRunning
    /\ user' = Absent
    /\ isLoading' = TRUE
    /\ auth' = IdleAuth
    /\ req' = IdleReq
    /\ calls' = [c \in CallIds |-> IdleCall]
    /\ last' = NoOp
    /\ UNCHANGED <<predictionHistory, now, running, inserted, deleted, token>>

\* The mount effect runs checkAuth: without a token it falls through to the
\* finally block at once; with one, api.getCurrentUser() is awaited
CheckAuth ==
    /\ NoTaskRunning
    /\ isLoading
    /\ auth.op = "none"
    /\ IF token = Absent
          THEN /\ isLoading' = FALSE
               /\ auth' = auth
          ELSE /\ isLoading' = isLoading
               /\ auth' = [IdleAuth EXCEPT !.op = "checkAuth",
                                           !.result = <<[token |-> token[1],
                                                         user |-> getCurrentUser(now)]>>]
    /\ last' = NoOp
    /\ UNCHANGED <<predictionHistory, now, calls, running, inserted, deleted,
                   token, user, req>>

\* The rest of checkAuth: setUser(currentUser), then finally setIsLoading(false)
CheckAuthContinues ==
    /\ NoTaskRunning
    /\ auth.op = "checkAuth"
    /\ user' = Some(auth.result[1].user)
    /\ isLoading' = FALSE
    /\ auth' = IdleAuth
    /\ last' = NoOp
    /\ UNCHANGED <<predictionHistory, now, calls, running, inserted, deleted,
                   token, req>>

\* The render gate: the page (the login page or another one) is on screen
\* unless the loader is shown in its place
Rendered(isLoginPage) == ~(isLoading \/ (user = Absent /\ ~isLoginPage))

\* SettingsPage.handleLogout: removeItem('token') and a push to /login; the
\* user state of AuthProvider is out of its reach
handleLogout ==
    /\ NoTaskRunning
    /\ token' = Absent
    /\ last' = NoOp
    /\ UNCHANGED <<predictionHistory, now, calls, running, inserted, deleted,
                   isLoading, user, auth, req>>

----------------------------------------------------------------------------
(* ApiClient.request, the request gateway *)

\* process.env.NEXT_PUBLIC_API_URL || 'https://cardio-vascular-backend.onrender.com'
API_BASE_URL == "https://cardio-vascular-backend.onrender.com"

\* The headers request builds: the token is read from localStorage; a stored
\* token is never the empty string (api.login), so `token &&` is a test for null
RequestHeaders(tokenItem, options) ==
    Spread(Spread(Spread(Header("Content-Type", <<"application/json">>),
                         Header("Accept", <<"application/json">>)),
                  IF HasWindow /\ tokenItem # Absent
                  THEN Header("Authorization", <<"Bearer ", tokenItem[1]>>)
                  ELSE NoHeaders),
           options.headers)

\* config: { ...options, headers, mode: 'cors' }
RequestConfig(tokenItem, options) ==
    [method |-> options.method,
     headers |-> RequestHeaders(tokenItem, options),
     mode |-> "cors"]

\* The body of a response, as response.json() finds it: text that is not
\* JSON, the JSON text null, or a JSON object of which the properties message,
\* detail and code are of interest (each absent or a string)
UnparseableBody == <<"unparseable">>
NullBody == <<"null">>
ObjectBody(message, detail, code) ==
    <<"object", [message |-> message, detail |-> detail, code |-> code]>>
EmptyObject == [message |-> Absent, detail |-> Absent, code |-> Absent]

\* x || ... for an optional string: undefined and '' are falsy
Truthy(o) == o # Absent /\ o[1] # ""

\* throw { message: error.message || error.detail || 'Request failed',
\*         code: error.code || 'UNKNOWN_ERROR', statusCode: response.status }
ServiceError(error, status) ==
    [type |-> "object",
     message |-> <<IF Truthy(error.message) THEN error.message[1]
                   ELSE IF Truthy(error.detail) THEN error.detail[1]
                   ELSE "Request failed">>,
     code |-> Some(IF Truthy(error.code) THEN error.code[1] ELSE "UNKNOWN_ERROR"),
     statusCode |-> Some(status)]

\* What the block `if (!response.ok) { ... }` throws for a body:
\* response.json().catch(() => ({})) gives {} for text that is not JSON and
\* null for the text null, of which error.message cannot be read
ThrownForErrorBody(body, status) ==
    IF body[1] = "unparseable" THEN ServiceError(EmptyObject, status)
    ELSE IF body[1] = "null" THEN NullBodyError
    ELSE ServiceError(body[2], status)

\* new Error('Network error: Unable to reach the server. ...')
NetworkError ==
    [type |-> "Error",
     message |-> <<"Network error: Unable to reach the server. This may be a CORS issue or the server is not responding.">>,
     code |-> Absent, statusCode |-> Absent]

\* What fetch rejects with when no response is obtained: a TypeError whose
\* message is the engine's (Chromium, WebKit, Gecko, Node)
TransportFailure(message) ==
    [type |-> "TypeError", message |-> <<message>>, code |-> Absent, statusCode |-> Absent]
TransportFailures ==
    {TransportFailure(message) :
        message \in {"Failed to fetch", "Load failed",
                     "NetworkError when attempting to fetch resource.", "fetch failed"}}

\* The catch block of request: what is thrown to the caller
RequestCatch(error) ==
    IF error.type = "TypeError" /\ error.message = <<"Failed to fetch">>
    THEN NetworkError
    ELSE error

\* request(endpoint, options) is called: the token is read, fetch is issued and awaited
Request(endpoint, options) ==
    /\ NoTaskRunning
    /\ req.pc = "idle"
    /\ req' = [pc |-> "fetch", url |-> <<API_BASE_URL, endpoint>>,
               config |-> <<RequestConfig(token, options)>>, status |-> 0,
               body |-> <<>>]
    /\ last' = NoOp
    /\ UNCHANGED <<predictionHistory, now, calls, running, inserted, deleted, isLoading,
                   token, user, auth>>

\* fetch rejects
RequestFetchFails(failure) ==
    /\ NoTaskRunning
    /\ req.pc = "fetch"
    /\ req' = IdleReq
    /\ last' = Rejected("request", RequestCatch(failure), History)
    /\ UNCHANGED <<predictionHistory, now, calls, running, inserted, deleted, isLoading,
                   token, user, auth>>

\* fetch resolves with a response of the given status and body; the body is
\* awaited through response.json()
RequestResponds(status, body) ==
    /\ NoTaskRunning
    /\ req.pc = "fetch"
    /\ req' = [req EXCEPT !.pc = IF ResponseOk(status) THEN "json" ELSE "error",
                          !.status = status, !.body = <<body>>]
    /\ last' = NoOp
    /\ UNCHANGED <<predictionHistory, now, calls, running, inserted, deleted, isLoading,
                   token, user, auth>>

\* The body of a response that is not ok has been read: the error is thrown
\* and goes through the catch block
RequestErrorThrown ==
    /\ NoTaskRunning
    /\ req.pc = "error"
    /\ req' = IdleReq
    /\ last' = Rejected("request",
                        RequestCatch(ThrownForErrorBody(req.body[1], req.status)),
                        History)
    /\ UNCHANGED <<predictionHistory, now, calls, running, inserted, deleted, isLoading,
                   token, user, auth>>

\* The body of a response that is ok has been read: the data is returned, or
\* the SyntaxError of response.json() goes through the catch block
RequestReturns ==
    /\ NoTaskRunning
    /\ req.pc = "json"
    /\ req' = IdleReq
    /\ last' = IF req.body[1][1] = "unparseable"
               THEN Rejected("request", RequestCatch(JsonSyntaxError), History)
               ELSE [NoOp EXCEPT !.op = "request", !.settled = "resolved",
                                 !.found = req.body, !.before = History]
    /\ UNCHANGED <<predictionHistory, now, calls, running, inserted, deleted, isLoading,
                   token, user, auth>>

----------------------------------------------------------------------------
(* Spec: calls that overlap, every outcome of the round trip, every history
   operation, on short histories *)

Statuses == {200, 500}
ErrorTexts == {"", "Internal Server Error"}
BackendResponses == {[risk |-> v] : v \in RiskValues}
ClockReadings == 0 .. MaxClock
IdChoices == {PredId(t) : t \in ClockReadings}
RiskLevelFilters == {Absent, Some("all"), Some("low"), Some("medium"), Some("high")}
FilterChoices ==
    {NoFilters, [riskLevel |-> Some("high"), page |-> Some(2), limit |-> Some(1)]}

Next ==
    \/ \E c \in CallIds, input \in OverlapInputs :
          Len(inserted) + NumInFlight < MaxStarted /\ CreatePrediction(c, input)
    \/ \E c \in CallIds : FetchFails(c)
    \/ \E c \in CallIds, status \in Statuses : FetchResponds(c, status)
    \/ \E c \in CallIds, errorText \in ErrorTexts : BackendErrorThrown(c, errorText)
    \/ \E c \in CallIds, error \in {JsonSyntaxError, NullBodyError} : BodyUnusable(c, error)
    \/ \E c \in CallIds, backendResponse \in BackendResponses, r \in RandomDraws,
          t2 \in ClockReadings :
          t2 = now /\ BodyArrives(c, backendResponse, r, t2)
    \/ \E c \in CallIds : SaveWrite(c)
    \/ \E filters \in FilterChoices : GetPredictionHistory(filters)
    \/ \E id \in IdChoices : GetPrediction(id)
    \/ \E id \in IdChoices : DeletePrediction(id)
    \/ now < MaxClock /\ Tick

Spec == Init /\ [][Next]_vars

----------------------------------------------------------------------------
(* SpecCap: one call after another with a millisecond between them, long
   enough to fill the history past its cap; a call may fail at any stage; the
   oldest entry or an id that is not stored may be deleted.  The n-th saved
   result is decided by n. *)

\* The input, the backend's answer and the random draw of the call that would
\* save the n-th result: of every five results two are high, one is medium and
\* two are low
BulkInput(n) == IF n % 2 = 0 THEN HealthyInput ELSE RoundTripInput
BulkResponse(n) == [risk |-> IF n % 5 \in {3, 4} THEN 0 ELSE 1]
BulkRandom(n) == IF n % 5 = 2 THEN 31 ELSE IF n % 5 = 0 THEN 99 ELSE 32

\* The ordinal of the result the next successful call saves
NextOrdinal == Len(inserted) + 1

\* An id no result carries
UnknownId == PredId(-1)

\* The ids deletePrediction is called with: the oldest stored one and an unknown one
BulkDeleteTargets ==
    {UnknownId} \cup (IF History = <<>> THEN {} ELSE {History[Len(History)].id})

SeqCreate(limit) ==
    /\ Len(inserted) < limit
    /\ CreatePrediction(1, BulkInput(NextOrdinal))

\* The millisecond between two calls passes while the request is out
SeqTick == calls[1].pc = "fetch" /\ now < NextOrdinal /\ Tick

SeqRespond(status) == now = NextOrdinal /\ FetchResponds(1, status)

SeqBodyArrives ==
    BodyArrives(1, BulkResponse(NextOrdinal), BulkRandom(NextOrdinal), now)

NextCap ==
    \/ SeqCreate(MaxBulkCalls)
    \/ SeqTick
    \/ FetchFails(1)
    \/ \E status \in Statuses : SeqRespond(status)
    \/ \E errorText \in ErrorTexts : BackendErrorThrown(1, errorText)
    \/ \E error \in {JsonSyntaxError, NullBodyError} : BodyUnusable(1, error)
    \/ SeqBodyArrives
    \/ SaveWrite(1)
    \/ \E id \in BulkDeleteTargets : DeletePrediction(id)

SpecCap == Init /\ [][NextCap]_vars

(* SpecList: the same sequence of successful calls, and every listing of the
   history after each of them *)

ListFilterChoices ==
    [riskLevel : RiskLevelFilters,
     page : {Absent, Some(1), Some(2), Some(3)},
     limit : {Absent, Some(1), Some(4)}]

NextList ==
    \/ SeqCreate(MaxListCalls)
    \/ SeqTick
    \/ SeqRespond(200)
    \/ SeqBodyArrives
    \/ SaveWrite(1)
    \/ \E filters \in ListFilterChoices : GetPredictionHistory(filters)

SpecList == Init /\ [][NextList]_vars

(* SpecLife: the history is filled to its cap by one successful call after
   another; from the call that fills it on, a call may fail at any stage and
   every other operation may run between the steps of a call: listing,
   lookup, login and logout, deletion of an unknown id and, once, of the
   oldest entry.  The history may be exported at any time. *)

\* The operations other than a successful call are allowed
LifeFree == Len(inserted) >= HistoryCap - 1

LifeDeleteTargets ==
    {UnknownId}
    \cup (IF deleted \/ History = <<>> THEN {} ELSE {History[Len(History)].id})

LifeGetTargets ==
    {UnknownId} \cup (IF History = <<>> THEN {} ELSE {History[1].id})

ExportFormats == {"csv", "json"}

NextLife ==
    \/ SeqCreate(MaxLifeCalls)
    \/ SeqTick
    \/ SeqRespond(200)
    \/ SeqBodyArrives
    \/ SaveWrite(1)
    \/ LifeFree /\ FetchFails(1)
    \/ LifeFree /\ SeqRespond(500)
    \/ LifeFree /\ \E errorText \in ErrorTexts : BackendErrorThrown(1, errorText)
    \/ LifeFree /\ BodyUnusable(1, JsonSyntaxError)
    \/ LifeFree /\ \E id \in LifeDeleteTargets : DeletePrediction(id)
    \/ LifeFree /\ GetPredictionHistory(NoFilters)
    \/ LifeFree /\ \E id \in LifeGetTargets : GetPrediction(id)
    \/ \E format \in ExportFormats : ExportHistory(format)
    \/ LifeFree /\ \E email \in Emails : Login(email)
    \/ LifeFree /\ LoginContinues
    \/ LifeFree /\ Logout("resolved")
    \/ LifeFree /\ LogoutFinally

SpecLife == Init /\ [][NextLife]_vars

(* SpecGateway: calls of request, one at a time, with every outcome of the
   fetch and of the body, while a user logs in and out *)

Endpoints == {"/predict"}

\* The options request is called with: no headers, a header of the caller's,
\* an Authorization header of the caller's
RequestOptions ==
    {[method |-> "GET", headers |-> NoHeaders],
     [method |-> "POST", headers |-> Header("X-Request-Id", <<"1">>)],
     [method |-> "POST", headers |-> Header("Authorization", <<"Basic ", "abc">>)]}

GatewayStatuses == Statuses \cup {404}

ResponseBodies ==
    {UnparseableBody, NullBody,
     ObjectBody(Absent, Absent, Absent),
     ObjectBody(Some("Bad input"), Absent, Absent),
     ObjectBody(Absent, Some("Not Found"), Absent),
     ObjectBody(Some(""), Some("Not Found"), Some("")),
     ObjectBody(Some("Bad input"), Some("Not Found"), Some("E_INPUT"))}

NextGateway ==
    \/ \E endpoint \in Endpoints, options \in RequestOptions : Request(endpoint, options)
    \/ \E failure \in TransportFailures : RequestFetchFails(failure)
    \/ \E status \in GatewayStatuses, body \in ResponseBodies : RequestResponds(status, body)
    \/ RequestErrorThrown
    \/ RequestReturns
    \/ \E email \in Emails : Login(email)
    \/ LoginContinues
    \/ \E outcome \in LogoutOutcomes : Logout(outcome)
    \/ LogoutFinally
    \/ now < MaxClock /\ Tick

SpecGateway == Init /\ [][NextGateway]_vars

(* SpecScore: successful calls, one after another, with every answer of the
   backend and every draw of Math.random() *)

\* Math.random() in hundredths: 0.00 .. 0.99
AllRandomDraws == 0 .. 99

NextScore ==
    \/ \E input \in Inputs : Len(inserted) < MaxScoreCalls /\ CreatePrediction(1, input)
    \/ FetchResponds(1, 200)
    \/ \E backendResponse \in BackendResponses, r \in AllRandomDraws :
          BodyArrives(1, backendResponse, r, now)
    \/ SaveWrite(1)

SpecScore == Init /\ [][NextScore]_vars

(* SpecForward: one call at a time with every input of a family that covers
   the cases of transformToBackendFormat; the request is sent and fails.
   A height, weight or bmi that is given is a measurement, a positive number;
   "unknown" is a gender that genderMap does not list. *)

\* Cholesterol in mg/dL, around the two thresholds
CholesterolValues == {150, 199, 200, 201, 239, 240, 241, 300}

ForwardInputs ==
    [age : {60}, gender : {"female", "male", "other", "unknown"},
     cholesterol : CholesterolValues,
     bloodPressureSystolic : {150}, bloodPressureDiastolic : {95},
     bmi : {Absent, Some(27)}, smoking : BOOLEAN, diabetes : BOOLEAN,
     familyHistory : {FALSE},
     height : {Absent, Some(165)}, weight : {Absent, Some(60)}]

NextForward ==
    \/ \E input \in ForwardInputs : CreatePrediction(1, input)
    \/ FetchFails(1)

SpecForward == Init /\ [][NextForward]_vars

(* SpecRules: successful calls, one after another, with inputs on both sides
   of every threshold of the recommendations and of the factors, and both
   answers of the backend *)

RuleInputs ==
    Inputs
    \cup [age : {55, 56}, gender : {"male"},
          cholesterol : {200, 201, 240, 241},
          bloodPressureSystolic : {140, 141}, bloodPressureDiastolic : {95},
          bmi : {Absent, Some(25), Some(26)}, smoking : BOOLEAN, diabetes : BOOLEAN,
          familyHistory : {FALSE}, height : {Absent}, weight : {Absent}]

NextRules ==
    \/ \E input \in RuleInputs : Len(inserted) < MaxRuleCalls /\ CreatePrediction(1, input)
    \/ FetchResponds(1, 200)
    \/ \E backendResponse \in BackendResponses, r \in RandomDraws :
          BodyArrives(1, backendResponse, r, now)
    \/ SaveWrite(1)

SpecRules == Init /\ [][NextRules]_vars

(* SpecSession: the session as the pages drive it.  A login needs the login
   page on screen, a logout a page behind the gate; the page may be loaded
   again at any time *)
\* The clock readings of a session: logins at different times store different tokens
MaxSessionClock == 2

NextSession ==
    \/ Mount
    \/ CheckAuth
    \/ CheckAuthContinues
    \/ Rendered(TRUE) /\ \E email \in Emails : Login(email)
    \/ LoginContinues
    \/ Rendered(FALSE) /\ \E outcome \in LogoutOutcomes : Logout(outcome)
    \/ LogoutFinally
    \/ Rendered(FALSE) /\ handleLogout
    \/ now < MaxSessionClock /\ Tick

SpecSession == Init /\ [][NextSession]_vars

----------------------------------------------------------------------------
(* The history and its cap *)

Ids(history) == {history[i].id : i \in 1 .. Len(history)}

\* The n most recently saved results, newest first
NewestFirst(results, n) ==
    [k \in 1 .. Min(n, Len(results)) |-> results[Len(results) - k + 1]]

\* C1: in every state reached by createPrediction calls (successful or failed)
\* and deletePrediction calls from an empty history, the list stored under
\* predictionHistory holds at most 50 entries.
C1_HistoryAtMostCap ==
    predictionHistory # NoItem => Len(JSONparse(predictionHistory)) <= HistoryCap

\* C1 witness: the history is full after more than 50 inserts, a delete has
\* been made, and the last call failed
C1_Witness ==
    /\ Len(History) = HistoryCap
    /\ Len(inserted) > HistoryCap
    /\ deleted
    /\ last.op = "create" /\ last.settled = "rejected"

\* C2: with no delete, after the results r1..rn have been inserted in that
\* order the history is exactly the min(n, 50) most recently inserted ones,
\* newest first, so that an insert into a full history evicts the oldest; in
\* particular 60 inserts leave r60..r11.
C2_InsertPrepends ==
    ~deleted =>
        /\ History = NewestFirst(inserted, HistoryCap)
        /\ Len(History) = Min(Len(inserted), HistoryCap)
        /\ Len(inserted) = 60 =>
              /\ Len(History) = 50
              /\ \A k \in 1 .. 50 : /\ History[k] = inserted[61 - k]
                                    /\ History[k].id = PredId(61 - k)

\* C2 witness: 60 results were inserted and none was deleted
C2_Witness ==
    /\ ~deleted
    /\ Len(inserted) = 60
    /\ last.op = "create" /\ last.settled = "resolved"
    /\ History[1] = last.found[1]

----------------------------------------------------------------------------
(* Failure of the round trip *)

\* A step in which call c stops being in flight without having reached its save
RejectStep(c) == InFlight(c) /\ ~InFlight(c)' /\ calls[c].pc # "save"

\* A step of call c that is not the write of its save
StepBeforeWrite(c) == calls'[c].pc # calls[c].pc /\ calls[c].pc # "save"

\* C3: a createPrediction call that fails (transport failure, non-2xx response,
\* unusable body) rejects to its caller and none of its steps changes the
\* stored history; the history gains a result only in the step that ends a
\* round trip whose response was 2xx and whose body was transformed.
C3_FailureLeavesHistory ==
    [][ /\ \A c \in CallIds :
              RejectStep(c) =>
                  /\ predictionHistory' = predictionHistory
                  /\ last'.op = "create" /\ last'.settled = "rejected"
                  /\ last'.error # <<>> /\ last'.found = <<>>
                  /\ History' = last'.before
        /\ \A c \in CallIds :
              StepBeforeWrite(c) => predictionHistory' = predictionHistory
        /\ (predictionHistory' # predictionHistory /\ last'.op # "delete") =>
              \E c \in CallIds :
                  /\ calls[c].pc = "save"
                  /\ ResponseOk(calls[c].status)
                  /\ calls[c].result # <<>>
                  /\ last'.op = "create" /\ last'.settled = "resolved"
                  /\ History' = Slice(<<calls[c].result[1]>> \o History, 0, HistoryCap)
      ]_vars

\* C3 witness: a call has just been rejected because of a non-2xx response
\* while the history holds a result and another call is in flight
C3_Witness ==
    /\ last.op = "create" /\ last.settled = "rejected"
    /\ last.error[1].type = "Error"
    /\ History # <<>>
    /\ History = last.before
    /\ NumInFlight > 0

----------------------------------------------------------------------------
(* Ids *)

\* C4: no two entries of the history share an id, also when two
\* createPrediction calls complete at the same clock reading.
C4_IdsUnique ==
    \A i, j \in 1 .. Len(History) : i # j => History[i].id # History[j].id

----------------------------------------------------------------------------
(* Calls in flight together *)

\* The continuation of call d that follows response.json() may run now
ReadEnabled(d) ==
    ENABLED (\E backendResponse \in BackendResponses, r \in RandomDraws :
                BodyArrives(d, backendResponse, r, now))

\* C5 as stated: two calls in flight can both read the history before either
\* writes it back, that is, while call c stands between the read and the write
\* of savePredictionToHistory a call d whose body is awaited can read.
C5_BothReadBeforeWrite ==
    \A c, d \in CallIds :
        (c # d /\ calls[c].pc = "save" /\ calls[d].pc = "json") => ReadEnabled(d)

\* C5 amended: calls in flight together interleave only at their awaits.  At
\* most one call stands between the read and the write of
\* savePredictionToHistory, it holds the thread, and the list it is about to
\* write is its result put before the history as stored now, so no insert is
\* computed from a history that misses an insert already begun.
C5_ReadModifyWriteAtomic ==
    \A c \in CallIds :
        calls[c].pc = "save" =>
            /\ running = c
            /\ \A d \in CallIds : d # c => calls[d].pc # "save" /\ ~ReadEnabled(d)
            /\ calls[c].local = <<calls[c].result[1]>> \o History

\* C5 witness: a call stands between its read and its write while another
\* call awaits its body, after yet another call saved its result during its flight
C5_Witness ==
    \E c, d \in CallIds :
        /\ c # d
        /\ calls[c].pc = "save"
        /\ calls[d].pc = "json"
        /\ calls[c].overtaken

\* The history when nothing was deleted: every saved result, newest first
AllSavedNewestFirst == History = NewestFirst(inserted, HistoryCap)

\* C6: when several calls are in flight together and their responses succeed,
\* in whatever order the responses arrive, each completion puts its result
\* before the history as the other calls left it, and when all have completed
\* the history holds every result (up to the cap), the last completed first.
C6_NoLostInsert ==
    [][ /\ \A c \in CallIds :
              (calls[c].pc = "save" /\ ~InFlight(c)') =>
                  /\ History' = Slice(<<calls[c].result[1]>> \o History, 0, HistoryCap)
                  /\ \A k \in 1 .. Min(Len(History), HistoryCap - 1) :
                        History'[k + 1] = History[k]
        /\ (NumInFlight' = 0 /\ ~deleted') => AllSavedNewestFirst'
      ]_vars

\* C6 witness: two calls were in flight together, the one made first completed
\* last, and both results are in the history
C6_Witness ==
    /\ last.op = "create" /\ last.settled = "resolved"
    /\ last.overtaken
    /\ NumInFlight = 0
    /\ ~deleted
    /\ Len(History) = Len(inserted)
    /\ Len(History) >= 2
    /\ History[1] = last.found[1]

----------------------------------------------------------------------------
(* Listing *)

\* The entries of history a riskLevel filter keeps, in store order
Kept(history, riskLevel) ==
    IF riskLevel = Absent \/ riskLevel = Some("all") THEN history
    ELSE SelectSeq(history, LAMBDA p : p.riskLevel = riskLevel[1])

HighPageTwoOfFour == [riskLevel |-> Some("high"), page |-> Some(2), limit |-> Some(4)]

\* C7: with page >= 1 and limit >= 1 (1 and 10 when absent), a listing returns
\* F, the entries whose riskLevel is the filter's (all of them for 'all' or no
\* filter) in store order, cut to data = F[(page-1)*limit .. (page-1)*limit+limit),
\* with total = |F|, hasMore = ((page-1)*limit + limit < |F|) and page and limit
\* echoed; 25 stored with 10 high and {high, page 2, limit 4} give 4 items,
\* total 10, hasMore true.
C7_ListFiltersThenPaginates ==
    last.op = "list" =>
        LET filters == last.filters[1]
            got == last.page[1]
            page == IF filters.page = Absent THEN 1 ELSE filters.page[1]
            limit == IF filters.limit = Absent THEN 10 ELSE filters.limit[1]
            F == Kept(last.before, filters.riskLevel)
            first == (page - 1) * limit
            size == Max(0, Min(limit, Len(F) - first))
        IN  /\ last.settled = "resolved"
            /\ got.page = page /\ got.limit = limit
            /\ got.total = Len(F)
            /\ Len(got.data) = size
            /\ \A i \in 1 .. size : got.data[i] = F[first + i]
            /\ got.hasMore = (first + limit < Len(F))
            /\ (Len(last.before) = 25 /\ filters = HighPageTwoOfFour) =>
                  /\ Len(F) = 10
                  /\ Len(got.data) = 4 /\ got.total = 10 /\ got.hasMore
                  /\ \A i \in 1 .. 4 : got.data[i].riskLevel = "high"
            /\ History = last.before

\* C7 witness: 25 results are stored, 10 of them high, and the second page of
\* four high ones is listed
C7_Witness ==
    /\ last.op = "list"
    /\ Len(last.before) = 25
    /\ Cardinality({i \in 1 .. 25 : last.before[i].riskLevel = "high"}) = 10
    /\ last.filters[1] = HighPageTwoOfFour
    /\ Len(last.page[1].data) = 4
    /\ last.page[1].total = 10
    /\ last.page[1].hasMore

----------------------------------------------------------------------------
(* Lookup and deletion *)

\* The errors a createPrediction call rejects with: no response (network), a
\* non-2xx response (service), an unusable body
NetworkErrors == {FailedToFetch}
ServiceErrors == {BackendError(text, status) : text \in ErrorTexts, status \in Statuses}
BodyErrors == {JsonSyntaxError, NullBodyError}

C9_DeleteAbsentIsNoOp ==
    /\ (last.op = "delete" /\ last.id[1] \notin Ids(last.before)) =>
          /\ last.settled = "resolved" /\ last.error = <<>>
          /\ History = last.before
    /\ \A id \in IdChoices \cup {UnknownId} :
          LET once == DeletedText(predictionHistory, id)
          IN  /\ DeletedText(once, id) = once
              /\ id \notin Ids(History) => JSONparse(once) = History

\* C9 witness: an id that is not stored has been deleted from a history that
\* holds entries
C9_Witness ==
    /\ last.op = "delete"
    /\ last.id[1] \notin Ids(last.before)
    /\ Len(last.before) >= 2
    /\ History = last.before

\* C10: deletePrediction(id) with an id that is stored removes the matching
\* entry and nothing else: no entry has the id afterwards, every entry with
\* another id is still there, unmodified and in the same relative order, and
\* the history is shorter by exactly one.
C10_DeleteRemovesExactlyOne ==
    (last.op = "delete" /\ last.id[1] \in Ids(last.before)) =>
        /\ last.id[1] \notin Ids(History)
        /\ History = SelectSeq(last.before, LAMBDA p : p.id # last.id[1])
        /\ Len(History) = Len(last.before) - 1

----------------------------------------------------------------------------
(* The life of an entry *)

\* C11: the history changes only in two kinds of step.  A createPrediction
\* call that resolves puts its result first, keeps every other entry as it
\* was and in its order, and drops only what falls behind position 50;
\* deletePrediction(id) drops exactly the entries whose id is id and keeps the
\* others as they were.  Listing, lookup, export, login, logout and a
\* createPrediction call that fails leave the stored history as it is.
C11_EntryLifecycle ==
    [][ /\ History' # History =>
              \/ /\ last'.op = "create" /\ last'.settled = "resolved"
                 /\ calls[1].pc = "save"
                 /\ History'[1] = calls[1].result[1]
                 /\ Len(History') = Min(Len(History) + 1, HistoryCap)
                 /\ \A k \in 2 .. Len(History') : History'[k] = History[k - 1]
              \/ /\ last'.op = "delete"
                 /\ LET id == last'.id[1]
                    IN  History' = SelectSeq(History, LAMBDA p : p.id # id)
        /\ ( \/ last'.op \in {"list", "get", "export", "login", "logout"}
             \/ last'.settled = "rejected"
             \/ auth' # auth ) =>
              /\ predictionHistory' = predictionHistory
              /\ inserted' = inserted
      ]_vars

\* C11 witness: the oldest entry has left the history by eviction and the next
\* one by deletion, and an export made while a user is logged in and a call is
\* in flight has left the history as it was
C11_Witness ==
    /\ last.op = "export"
    /\ History = last.before
    /\ Len(inserted) = HistoryCap + 1
    /\ Len(History) = HistoryCap - 1
    /\ deleted
    /\ inserted[1].id \notin Ids(History)
    /\ inserted[2].id \notin Ids(History)
    /\ token # Absent
    /\ InFlight(1)

----------------------------------------------------------------------------
(* Reading after writing *)

\* The listings read back after a write: each riskLevel on the first page, and
\* the listings of Spec
ReadBackFilters ==
    FilterChoices
    \cup {[riskLevel |-> level, page |-> Absent, limit |-> Absent] :
             level \in RiskLevelFilters}

\* The ids of the entries a listing returns
ListedIds(item, filters) == Ids(getPredictionHistory(item, filters).data)

\* C12: when createPrediction has just resolved with r, getPrediction(r.id)
\* returns r and the listing without filters has r first; when
\* deletePrediction(id) has just resolved, getPrediction(id) fails with the
\* NotFound error and no listing, whatever its filters, has an entry with that
\* id.  Stated of what the operations would return in that state and of what
\* the next operation does return.
C12_ReadAfterWrite ==
    [][ /\ (last.op = "create" /\ last.settled = "resolved") =>
              LET r == last.found[1]
              IN  /\ getPrediction(predictionHistory, r.id) =
                        [found |-> <<r>>, error |-> <<>>]
                  /\ getPredictionHistory(predictionHistory, NoFilters).data[1] = r
                  /\ (last'.op = "get" /\ last'.id = <<r.id>>) =>
                        last'.settled = "resolved" /\ last'.found = <<r>>
                  /\ (last'.op = "list" /\ last'.filters = <<NoFilters>>) =>
                        last'.page[1].data[1] = r
        /\ last.op = "delete" =>
              LET id == last.id[1]
              IN  /\ last.settled = "resolved"
                  /\ getPrediction(predictionHistory, id) =
                        [found |-> <<>>, error |-> <<NotFoundError>>]
                  /\ \A filters \in ReadBackFilters :
                        id \notin ListedIds(predictionHistory, filters)
                  /\ (last'.op = "get" /\ last'.id = <<id>>) =>
                        last'.settled = "rejected" /\ last'.error = <<NotFoundError>>
                  /\ last'.op = "list" => id \notin Ids(last'.page[1].data)
      ]_vars

\* C12 witness: a result has just been saved in front of an older one that
\* has the same id, after a deletion
C12_Witness ==
    /\ last.op = "create" /\ last.settled = "resolved"
    /\ deleted
    /\ Len(History) >= 2
    /\ History[2].id = last.found[1].id
    /\ History[2] # last.found[1]

----------------------------------------------------------------------------
(* Errors of the round trip and of the gateway *)

\* The properties of a body that request looks at
BodyFields(body) == IF body[1] = "object" THEN body[2] ELSE EmptyObject

\* C13: a createPrediction call whose response is not 2xx fails with an error
\* value {message, code, statusCode} as the gateway builds it: message and
\* code taken from some body or defaulted, statusCode the status of the response.
C13_CreateFailsWithServiceError ==
    [][ \A c \in CallIds :
           (calls[c].pc = "text" /\ RejectStep(c)) =>
               /\ last'.op = "create" /\ last'.settled = "rejected"
               /\ last'.error[1].statusCode = Some(calls[c].status)
               /\ last'.error[1].code # Absent
               /\ \E body \in ResponseBodies :
                     last'.error[1] = ServiceError(BodyFields(body), calls[c].status)
      ]_vars

\* C14: request, when the response is not ok, fails with the value {message,
\* code, statusCode} where message is the body's message, else its detail,
\* else 'Request failed', code is the body's code, else 'UNKNOWN_ERROR', and
\* statusCode is the status of the response, whatever the body is (also a
\* body that is not JSON), and that value is what the caller catches.
C14_NonSuccessIsServiceError ==
    [][ (req.pc = "error" /\ req'.pc = "idle") =>
            /\ last'.op = "request" /\ last'.settled = "rejected"
            /\ last'.error = <<ServiceError(BodyFields(req.body[1]), req.status)>>
      ]_vars

\* C15: request, when fetch obtains no response, fails with the network error
\* that carries the CORS/unreachable text, which is none of the service
\* errors; a call that obtained a response never fails with the network error.
C15_TransportFailureIsNetworkError ==
    [][ /\ (req.pc = "fetch" /\ req'.pc = "idle") =>
              /\ last'.settled = "rejected"
              /\ last'.error = <<NetworkError>>
              /\ \A status \in GatewayStatuses, body \in ResponseBodies :
                    last'.error[1] # ServiceError(BodyFields(body), status)
        /\ (req.pc \in {"json", "error"} /\ req'.pc = "idle") =>
              last'.error # <<NetworkError>>
      ]_vars

\* The headers carry Authorization: Bearer <token> exactly when a token is stored
BearerIffStored(headers, tokenItem) ==
    IF tokenItem = Absent
    THEN "Authorization" \notin DOMAIN headers
    ELSE /\ "Authorization" \in DOMAIN headers
         /\ headers["Authorization"] = <<"Bearer ", tokenItem[1]>>

\* C16: a request that goes out, the predict request of createPrediction or
\* one built by request, carries Authorization: Bearer <token> with the token
\* stored under 'token' when the request is built, and no Authorization header
\* when none is stored.
C16_BearerIffTokenStored ==
    [][ /\ \A c \in CallIds :
              (calls[c].pc = "idle" /\ calls'[c].pc = "fetch") =>
                  BearerIffStored(PredictRequest(calls'[c].input[1]).headers, token)
        /\ (req.pc = "idle" /\ req'.pc = "fetch") =>
              BearerIffStored(req'.config[1].headers, token)
      ]_vars

----------------------------------------------------------------------------
(* Logout *)

\* C17: when AuthProvider.logout has finished, whether api.logout resolved or
\* threw, no token is stored, the user is null, and logout has resolved
\* without an error for its caller.
C17_LogoutClearsSession ==
    last.op = "logout" =>
        /\ last.settled = "resolved" /\ last.error = <<>>
        /\ token = Absent
        /\ user = Absent
        /\ auth.op = "none"

\* C17 witness: a logout has finished in which api.logout threw while a
\* token was stored and a user was logged in
C17_Witness ==
    /\ last.op = "logout"
    /\ last.session[1].outcome = "rejected"
    /\ last.session[1].token # Absent
    /\ last.session[1].user # Absent

----------------------------------------------------------------------------
(* Export *)

\* The index of the first line break of a text, 0 when it has none
FirstBreak(text) ==
    IF \E i \in 1 .. Len(text) : text[i] = "\n"
    THEN CHOOSE i \in 1 .. Len(text) :
            text[i] = "\n" /\ \A j \in 1 .. (i - 1) : text[j] # "\n"
    ELSE 0

\* The lines of a text: the pieces between its line breaks
RECURSIVE SplitLines(_)
SplitLines(text) ==
    IF FirstBreak(text) = 0 THEN <<text>>
    ELSE <<SubSeq(text, 1, FirstBreak(text) - 1)>>
         \o SplitLines(SubSeq(text, FirstBreak(text) + 1, Len(text)))

\* The line of the CSV export that stands for the entry p
RowOf(p) ==
    <<"day ", ToString(p.createdAt[2] \div MsPerDay), ",", ToString(p.input.age), ",",
      p.input.gender, ",", ToString(p.riskScore), ",", p.riskLevel>>

\* C18: what exportHistory returns is a view of the history as stored when it
\* is called.  The JSON export parses back to the entries of the history, in
\* their order; the CSV export is the line Date,Age,Gender,Risk Score,Risk Level
\* followed by one line per entry, in the order of the history, so that it has
\* as many data lines as the history has entries; the export leaves the
\* history as it was.
C18_ExportFaithful ==
    last.op = "export" =>
        LET blob == last.page[1]
            format == last.filters[1]
        IN  /\ last.settled = "resolved"
            /\ History = last.before
            /\ format = "json" =>
                  /\ blob.type = "application/json"
                  /\ JSONparse(blob.parts[1]) = last.before
            /\ format = "csv" =>
                  LET lines == SplitLines(blob.parts[1])
                  IN  /\ blob.type = "text/csv"
                      /\ lines[1] = <<"Date", ",", "Age", ",", "Gender", ",",
                                      "Risk Score", ",", "Risk Level">>
                      /\ Len(lines) - 1 = Len(last.before)
                      /\ \A k \in 1 .. Len(last.before) :
                            lines[k + 1] = RowOf(last.before[k])

\* C18 witness: a full history of results of the three risk levels has been
\* exported as CSV
C18_Witness ==
    /\ last.op = "export"
    /\ last.filters = <<"csv">>
    /\ Len(last.before) = HistoryCap
    /\ {last.before[k].riskLevel : k \in 1 .. HistoryCap} = {"low", "medium", "high"}
    /\ Len(SplitLines(last.page[1].parts[1])) = HistoryCap + 1

----------------------------------------------------------------------------
(* Risk score and risk level *)

\* The score of a result lies in the range of its level
ScoreInLevel(p) ==
    /\ p.riskScore \in 0 .. 100
    /\ p.riskLevel \in {"low", "medium", "high"}
    /\ p.riskLevel = "low" => 5 <= p.riskScore /\ p.riskScore < 25
    /\ p.riskLevel = "medium" => 35 <= p.riskScore /\ p.riskScore <= 50
    /\ p.riskLevel = "high" => 50 < p.riskScore /\ p.riskScore <= 85

\* C19: transformBackendResponse gives, for risk 0, a riskScore in [5, 25) and
\* the level low and, for risk 1, a riskScore in [35, 85) and the level high
\* when the score is above 50 and medium otherwise; so every result of the
\* history has an integer score in [0, 100] that lies in [5, 25) when its
\* level is low, in [35, 50] when medium and in (50, 85] when high.
C19_ScoreMatchesLevel ==
    [][ /\ \A c \in CallIds :
              (calls[c].pc = "json" /\ calls'[c].pc = "save") =>
                  LET risk == calls'[c].response[1].risk
                      p == calls'[c].result[1]
                  IN  /\ risk = 0 =>
                            /\ 5 <= p.riskScore /\ p.riskScore < 25
                            /\ p.riskLevel = "low"
                      /\ risk = 1 =>
                            /\ 35 <= p.riskScore /\ p.riskScore < 85
                            /\ p.riskLevel = IF p.riskScore > 50 THEN "high" ELSE "medium"
                      /\ ScoreInLevel(p)
        /\ \A k \in 1 .. Len(History') : ScoreInLevel(History'[k])
      ]_vars

\* C19 witness: a result with the highest score of the level medium is in the history
C19_Witness ==
    /\ History # <<>>
    /\ History[1].riskLevel = "medium"
    /\ History[1].riskScore = 50

----------------------------------------------------------------------------
(* The forward transform *)

\* What the predict request of call c carries as its body
SentBody(c) == JSONparse(PredictRequest(calls[c].input[1]).body)

\* C20: the cholesterol sent to the backend is 1 when the input's cholesterol
\* is below 200 mg/dL, 2 when it is 200 through 240 and 3 when it is above
\* 240, so 199 gives 1, 200 gives 2, 240 gives 2 and 241 gives 3, and it is
\* always one of 1, 2, 3.
C20_CholesterolTier ==
    \A c \in CallIds :
        calls[c].pc = "fetch" =>
            LET mgdl == calls[c].input[1].cholesterol
                tier == SentBody(c).cholesterol
            IN  /\ tier \in {1, 2, 3}
                /\ mgdl < 200 => tier = 1
                /\ (200 <= mgdl /\ mgdl <= 240) => tier = 2
                /\ mgdl > 240 => tier = 3
                /\ mgdl = 199 => tier = 1
                /\ mgdl = 200 => tier = 2
                /\ mgdl = 240 => tier = 2
                /\ mgdl = 241 => tier = 3

\* C20 witness: a request is out for an input whose cholesterol is 200, the
\* lower end of the middle tier
C20_Witness ==
    /\ calls[1].pc = "fetch"
    /\ calls[1].input[1].cholesterol = 200
    /\ SentBody(1).cholesterol = 2

\* The properties of a BackendPredictionInput
BackendFields ==
    {"age", "gender", "height", "weight", "ap_hi", "ap_lo", "cholesterol",
     "gluc", "smoke", "alco", "active", "bmi"}

\* w is the integer nearest to bmi * (height / 100)^2, a half rounded up
NearestWeight(w, bmi, height) ==
    /\ 2 * 10000 * w - 10000 <= 2 * bmi * height * height
    /\ 2 * bmi * height * height < 2 * 10000 * w + 10000

C22_ForwardCodesCategories ==
    \A c \in CallIds :
        calls[c].pc = "fetch" =>
            LET input == calls[c].input[1]
                sent == SentBody(c)
            IN  /\ sent.gender \in {1, 2}
                /\ sent.gender = 1 <=> input.gender = "female"
                /\ sent.gluc \in {1, 2}
                /\ sent.gluc = 2 <=> input.diabetes
                /\ sent.smoke \in {0, 1}
                /\ sent.smoke = 1 <=> input.smoking

\* C22 witness: a request is out for a diabetic non-smoker whose gender is
\* not listed in genderMap
C22_Witness ==
    /\ calls[1].pc = "fetch"
    /\ calls[1].input[1].gender = "unknown"
    /\ calls[1].input[1].diabetes
    /\ ~calls[1].input[1].smoking
    /\ SentBody(1).gender = 2 /\ SentBody(1).gluc = 2 /\ SentBody(1).smoke = 0

----------------------------------------------------------------------------
(* Recommendations and factors *)

\* The results that exist in a state: those of the history and the one a call
\* is about to save
ResultsAtHand ==
    {History[k] : k \in 1 .. Len(History)}
    \cup {calls[c].result[1] : c \in {d \in CallIds : calls[d].pc = "save"}}

\* The entries of lines whose rule fired, in the order of the rules
LinesOfFired(fired, lines) ==
    LET at == SelectSeq([i \in 1 .. Len(lines) |-> i], LAMBDA i : fired[i])
    IN  [k \in 1 .. Len(at) |-> lines[at[k]]]

RecommendationLines ==
    <<"Consider smoking cessation programs",
      "Monitor blood pressure regularly",
      "Consider dietary changes to reduce cholesterol",
      "Maintain blood glucose control",
      "Consider weight management plan">>

FallbackLine == "Continue maintaining healthy lifestyle habits"

\* Which of the five recommendation rules fire on an input
RecommendationRules(input) ==
    <<input.smoking,
      input.bloodPressureSystolic > 140,
      input.cholesterol > 200,
      input.diabetes,
      input.bmi # Absent /\ input.bmi[1] > 25>>

\* C23: the recommendations of a result are the lines of the rules that fire
\* on its input, in the order smoking, systolic > 140, cholesterol > 200,
\* diabetes, bmi > 25, each once; when no rule fires they are the fallback
\* line alone, so the list is never empty and the fallback line never stands
\* beside another line.
C23_RecommendationsFollowRules ==
    \A p \in ResultsAtHand :
        LET fired == RecommendationRules(p.input)
            none == \A i \in 1 .. 5 : ~fired[i]
            recs == p.recommendations
        IN  /\ Len(recs) >= 1
            /\ ~none => recs = LinesOfFired(fired, RecommendationLines)
            /\ none => recs = <<FallbackLine>>
            /\ (\E k \in 1 .. Len(recs) : recs[k] = FallbackLine) <=> none
            /\ \A j, k \in 1 .. Len(recs) : j # k => recs[j] # recs[k]

\* C23 witness: the history holds a result on whose input only the rules of
\* systolic pressure and of bmi fire
C23_Witness ==
    /\ History # <<>>
    /\ RecommendationRules(History[1].input) = <<FALSE, TRUE, FALSE, FALSE, TRUE>>
    /\ History[1].recommendations =
          <<"Monitor blood pressure regularly", "Consider weight management plan">>

FactorHeads ==
    <<[name |-> "Smoking", impact |-> 25],
      [name |-> "High Blood Pressure", impact |-> 30],
      [name |-> "High Cholesterol", impact |-> 20],
      [name |-> "Age", impact |-> 15]>>

\* Which of the four factor rules fire on an input
FactorRules(input) ==
    <<input.smoking,
      input.bloodPressureSystolic > 140,
      input.cholesterol > 240,
      input.age > 55>>

\* The name and the impact of each factor of a result
HeadsOf(factors) ==
    [k \in 1 .. Len(factors) |-> [name |-> factors[k].name, impact |-> factors[k].impact]]

\* C24: the factors of a result are Smoking (25) when smoking, High Blood
\* Pressure (30) when systolic > 140, High Cholesterol (20) when
\* cholesterol > 240 and Age (15) when age > 55, in that order and each once,
\* whatever the backend answered; the input with age 60, cholesterol 260,
\* systolic 150 and smoking has all four.
C24_FactorsFollowRules ==
    /\ \A p \in ResultsAtHand :
          /\ HeadsOf(p.factors) = LinesOfFired(FactorRules(p.input), FactorHeads)
          /\ (p.input.age = 60 /\ p.input.cholesterol = 260
               /\ p.input.bloodPressureSystolic = 150 /\ p.input.smoking) =>
                HeadsOf(p.factors) = FactorHeads
    /\ \A c \in CallIds :
          calls[c].pc = "save" =>
              \A risk \in RiskValues, r \in RandomDraws :
                  transformBackendResponse([risk |-> risk], calls[c].input[1],
                                           r, now, now).factors
                  = calls[c].result[1].factors

\* C24 witness: the history holds a result of low risk for the input with
\* age 60, cholesterol 260, systolic 150 and smoking, with its four factors
C24_Witness ==
    /\ History # <<>>
    /\ History[1].input = RoundTripInput
    /\ History[1].riskLevel = "low"
    /\ Len(History[1].factors) = 4

----------------------------------------------------------------------------
(* Pages *)

\* C25: session consistency.  Once the auth check has finished (isLoading is
\* false), a user that is not null (isAuthenticated) implies that a token is
\* stored under 'token', in every state the login, the two logouts and the
\* auth check can reach.
C25_UserImpliesToken ==
    (~isLoading /\ user # Absent) => token # Absent

\* Page k of the listing of the stored history with a riskLevel and a limit
PageOf(item, riskLevel, limit, k) ==
    getPredictionHistory(item, [riskLevel |-> riskLevel, page |-> Some(k), limit |-> limit])

\* The data of the pages k, k + 1, ... up to the first one that has no more
RECURSIVE ConcatPages(_, _, _, _)
ConcatPages(item, riskLevel, limit, k) ==
    PageOf(item, riskLevel, limit, k).data
    \o (IF PageOf(item, riskLevel, limit, k).hasMore
        THEN ConcatPages(item, riskLevel, limit, k + 1)
        ELSE <<>>)

\* C26: when the history has been listed with a riskLevel and a limit, the
\* pages 1, 2, ... of that history with that riskLevel and limit, up to the
\* first page that has no more, put one after the other are the filtered
\* history, every entry once and in order; each page holds at most limit
\* entries, and a page has more exactly when the page after it is not empty.
C26_PagesPartition ==
    last.op = "list" =>
        LET riskLevel == last.filters[1].riskLevel
            limit == last.filters[1].limit
            size == IF limit = Absent THEN 10 ELSE limit[1]
            F == Kept(History, riskLevel)
        IN  /\ History = last.before
            /\ size >= 1
            /\ ConcatPages(predictionHistory, riskLevel, limit, 1) = F
            /\ \A k \in 1 .. (Len(F) + 1) :
                  /\ Len(PageOf(predictionHistory, riskLevel, limit, k).data) <= size
                  /\ PageOf(predictionHistory, riskLevel, limit, k).hasMore
                     <=> PageOf(predictionHistory, riskLevel, limit, k + 1).data # <<>>
            /\ last.page[1] =
                  PageOf(predictionHistory, riskLevel, limit,
                         IF last.filters[1].page = Absent THEN 1
                         ELSE last.filters[1].page[1])

\* C26 witness: a history of 26 results has been listed by fours for the
\* level low, of which it holds more than two pages and not a whole number of pages
C26_Witness ==
    /\ last.op = "list"
    /\ Len(History) = 26
    /\ last.filters[1].riskLevel = Some("low")
    /\ last.filters[1].limit = Some(4)
    /\ Len(Kept(History, Some("low"))) > 8
    /\ Len(Kept(History, Some("low"))) % 4 # 0
    /\ PageOf(predictionHistory, Some("low"), Some(4), 3).data # <<>>
    /\ ~PageOf(predictionHistory, Some("low"), Some(4), 3).hasMore

====
